---------------------------- MODULE Spec2Model ----------------------------
(***************************************************************************)
(* The SQS batch consumer of src/lambda/lambda_function.py                 *)
(* (lambda_handler), together with the three things it talks to: the       *)
(* Comprehend classifier, the DynamoDB table and the SQS substrate that    *)
(* redelivers what the returned batchItemFailures names.                   *)
(*                                                                         *)
(* One "world" is the record                                               *)
(*   [queue, inv, table, log, invocations, persisted, latest]              *)
(* queue: the envelopes SQS still holds; inv: the frame of the running     *)
(* lambda_handler call (its locals and its position pc); table: the items  *)
(* of the DynamoDB table; log: the external calls of the running           *)
(* invocation; invocations: how many there were; persisted and latest:     *)
(* the history of the successful writes (whose envelope, and per surveyId  *)
(* the last item written and whether it replaced another).  Every step of  *)
(* the handler is a function from a world and the environment's answer     *)
(* (classifier result, store result, clock value) to a world.              *)
(*                                                                         *)
(* The Lambda authorizer of src/lambda/authorizer.py is modelled the same  *)
(* way: auth holds the frames of two calls of its lambda_handler, every    *)
(* step a function from a frame and the answer of SSM to a frame.          *)
(***************************************************************************)
EXTENDS Integers, Sequences, FiniteSets, TLC

\* ------------------------------------------------------------- bounds
MaxBatch == 2
MaxInvocations == 2
MaxClock == 1
MaxConcurrentBatch == 1

\* lambda_function.py:19  TTL_DAYS = int(os.environ.get('TTL_DAYS', '365'))
TTL_DAYS == 365

\* ------------------------------------------------- JSON / Python values
\* A decoded JSON value: t is its type, n its number, s its string.
\* "absent" is a key the object does not have.
Absent == [t |-> "absent", n |-> 0, s |-> ""]
None == [t |-> "null", n |-> 0, s |-> ""]
Str(x) == [t |-> "str", n |-> 0, s |-> x]
Num(k) == [t |-> "num", n |-> k, s |-> ""]

Obj(sid, cid, rating, text, ts) ==
    [surveyId |-> sid, customerId |-> cid, rating |-> rating,
     text |-> text, timestamp |-> ts]

NoObj == Obj(Absent, Absent, Absent, Absent, Absent)

\* The body of an SQS record, as text: undecodable, JSON that is no object
\* (null, a number, a list, a string), or a JSON object.
InvalidJson == [kind |-> "invalid", obj |-> NoObj]
NonObject == [kind |-> "nonobject", obj |-> NoObj]
Object(o) == [kind |-> "object", obj |-> o]

\* json.loads(record['body'])
json_loads(body) ==
    IF body.kind = "invalid"
    THEN [exc |-> "JSONDecodeError", value |-> body]
    ELSE [exc |-> "none", value |-> body]

\* message_body.get(key): a non-dict has no get (AttributeError); a missing
\* key and a JSON null both give None.
dict_get(message_body, key) ==
    IF message_body.kind # "object"
    THEN [exc |-> "AttributeError", value |-> None]
    ELSE [exc |-> "none",
          value |-> IF message_body.obj[key].t = "absent"
                    THEN None ELSE message_body.obj[key]]

\* Python truthiness, as all([...]) applies it.
Truthy(v) ==
    CASE v.t = "str" -> v.s # ""
      [] v.t = "num" -> v.n # 0
      [] OTHER -> FALSE

\* str(v), as Decimal(str(rating)) and the f-string of pk apply it.
str(v) ==
    CASE v.t = "str" -> v.s
      [] v.t = "num" -> ToString(v.n)
      [] OTHER -> "None"

\* The numbers a rating may be in the model.
Ratings == 0..5

\* Decimal(s): the number s is the literal of, or InvalidOperation.
Decimal(s) ==
    IF \E k \in Ratings : ToString(k) = s
    THEN [exc |-> "none", value |-> CHOOSE k \in Ratings : ToString(k) = s]
    ELSE [exc |-> "InvalidOperation", value |-> 0]


\* ------------------------------------------------------------ the frame
Labels == {"POSITIVE", "NEGATIVE"}

\* What the environment answers in one step: the classifier's result, the
\* store's result and the value time.time() returns.
Envs(lo, hi) ==
    [comprehend : {"ok", "error"}, sentiment : Labels,
     dynamodb : {"ok", "error"}, t : lo..hi]

NoItem ==
    [pk |-> "", customerId |-> None, surveyId |-> None, rating |-> 0,
     text |-> None, sentiment |-> "", score |-> "", createdAt |-> 0,
     expiresAt |-> 0, originalTimestamp |-> None]

\* The frame of lambda_handler between two invocations.
IdleFrame ==
    [pc |-> "idle", Records |-> <<>>, i |-> 0, batch_item_failures |-> <<>>,
     message_body |-> NonObject, survey_id |-> None, customer_id |-> None,
     rating |-> None, text |-> None, timestamp |-> None,
     sentiment |-> "", sentiment_scores |-> "",
     created_at |-> 0, expires_at |-> 0, item |-> NoItem,
     exc |-> "none",
     result |-> [statusCode |-> 0, hasFailures |-> FALSE,
                 batchItemFailures |-> <<>>]]

\* One external call, as the log keeps it: which call, of which invocation,
\* on which envelope, whether it returned (ok) or raised, the item it was
\* given (put_item), the label it returned (detect_sentiment) and the time
\* it returned (time).
Call(w, op, ok) ==
    [op |-> op, inv |-> w.invocations, i |-> w.inv.i,
     messageId |-> w.inv.Records[w.inv.i].messageId, ok |-> ok,
     item |-> IF op = "put_item" THEN w.inv.item ELSE NoItem,
     sentiment |-> "", t |-> 0]

\* AppendFailure that puts the new failure at the head of the list
\* (insert(0, ...) in the place of append).
AppendFailureFirst(w) ==
    [w EXCEPT !.inv.batch_item_failures =
                  <<[itemIdentifier |-> w.inv.Records[w.inv.i].messageId]>> \o @,
              !.inv.pc = "loop"]

\* batch_item_failures.append({'itemIdentifier': record['messageId']});
\* continue
AppendFailure(w) ==
    [w EXCEPT !.inv.batch_item_failures =
                  Append(@, [itemIdentifier |->
                                 w.inv.Records[w.inv.i].messageId]),
              !.inv.pc = "loop"]

\* An exception no handler of lambda_handler catches leaves the invocation.
Raise(w, exc) == [w EXCEPT !.inv.pc = "raised", !.inv.exc = exc]

\* OuterExcept without its second handler (except Exception).
OuterExceptJsonOnly(w, exc) ==
    IF exc = "JSONDecodeError"
    THEN AppendFailure(w)
    ELSE Raise(w, exc)

\* OuterExcept that records the failure and leaves the loop (break in the
\* place of continue).
OuterExceptBreak(w, exc) == [AppendFailure(w) EXCEPT !.inv.pc = "return"]

\* The outer handlers: except json.JSONDecodeError / except Exception.
OuterExcept(w, exc) ==
    IF exc = "JSONDecodeError"
    THEN AppendFailure(w)
    ELSE AppendFailure(w)

\* ComprehendExcept that appends and raises again into the outer handler,
\* which appends once more.
ComprehendExceptReraise(w) == AppendFailure(AppendFailure(w))

\* except Exception around comprehend.detect_sentiment.
ComprehendExcept(w) == AppendFailure(w)

\* DynamoExcept that logs the error and forgets to report the envelope.
DynamoExceptSilent(w) == [w EXCEPT !.inv.pc = "loop"]

\* except Exception around table.put_item.
DynamoExcept(w) == AppendFailure(w)

\* ------------------------------------------------------------ the steps
\* The runtime calls lambda_handler(event, context) with the queue's
\* envelopes; batch_item_failures = [].
InvokeStep(w) ==
    [w EXCEPT !.inv = [IdleFrame EXCEPT !.pc = "loop", !.Records = w.queue],
              !.log = <<>>,
              !.invocations = @ + 1]

\* for record in event.get('Records', []):
ForStep(w) ==
    IF w.inv.i < Len(w.inv.Records)
    THEN [w EXCEPT !.inv.i = @ + 1, !.inv.pc = "parse"]
    ELSE [w EXCEPT !.inv.pc = "return"]

\* message_body = json.loads(record['body']) and the five .get calls.
ParseStep(w) ==
    LET r == json_loads(w.inv.Records[w.inv.i].body)
        g(key) == dict_get(r.value, key)
    IN  IF r.exc # "none" THEN OuterExcept(w, r.exc)
        ELSE IF g("surveyId").exc # "none"
        THEN OuterExcept([w EXCEPT !.inv.message_body = r.value],
                         g("surveyId").exc)
        ELSE [w EXCEPT !.inv.message_body = r.value,
                       !.inv.survey_id = g("surveyId").value,
                       !.inv.customer_id = g("customerId").value,
                       !.inv.rating = g("rating").value,
                       !.inv.text = g("text").value,
                       !.inv.timestamp = g("timestamp").value,
                       !.inv.pc = "validate"]

\* AllRequired that leaves text out of the list.
AllRequiredNoText(f) ==
    Truthy(f.survey_id) /\ Truthy(f.customer_id) /\ Truthy(f.rating)

\* all([survey_id, customer_id, rating, text])
AllRequired(f) ==
    Truthy(f.survey_id) /\ Truthy(f.customer_id) /\ Truthy(f.rating)
        /\ Truthy(f.text)

\* if not all([...]): append the failure, continue
ValidateStep(w) ==
    IF ~AllRequired(w.inv)
    THEN AppendFailure(w)
    ELSE [w EXCEPT !.inv.pc = "classify"]

\* DetectSentimentStep that tries a second time when the first call on an
\* envelope raised.
DetectSentimentStepRetry(w, env) ==
    LET ok == env.comprehend = "ok"
        call == [Call(w, "detect_sentiment", ok) EXCEPT
                     !.sentiment = IF ok THEN env.sentiment ELSE ""]
        called == [w EXCEPT !.log = Append(@, call)]
        first == \A j \in 1..Len(w.log) : w.log[j].i # w.inv.i
    IN  IF ~ok THEN (IF first THEN called ELSE ComprehendExcept(called))
        ELSE [called EXCEPT !.inv.sentiment = env.sentiment,
                            !.inv.sentiment_scores = "scores:" \o env.sentiment,
                            !.inv.pc = "clock"]

\* comprehend.detect_sentiment(Text=text, LanguageCode='en')
DetectSentimentStep(w, env) ==
    LET ok == env.comprehend = "ok"
        call == [Call(w, "detect_sentiment", ok) EXCEPT
                     !.sentiment = IF ok THEN env.sentiment ELSE ""]
        called == [w EXCEPT !.log = Append(@, call)]
    IN  IF ~ok THEN ComprehendExcept(called)
        ELSE [called EXCEPT !.inv.sentiment = env.sentiment,
                            !.inv.sentiment_scores = "scores:" \o env.sentiment,
                            !.inv.pc = "clock"]

\* ExpiresAt with one factor of 60 lost: TTL_DAYS in minutes.
ExpiresAtMinutes(created_at) == created_at + (TTL_DAYS * 24 * 60)

\* created_at + (TTL_DAYS * 24 * 60 * 60)
ExpiresAt(created_at) == created_at + (TTL_DAYS * 24 * 60 * 60)

\* ClockStep that trusts the submission's timestamp when it has one (a
\* stale caller-supplied time, the epoch here) instead of the clock.
ClockStepFromTimestamp(w, env) ==
    LET t == IF w.inv.timestamp.t = "str" THEN 0 ELSE env.t
    IN  [w EXCEPT !.log = Append(@, [Call(w, "time", TRUE) EXCEPT !.t = env.t]),
                  !.inv.created_at = t,
                  !.inv.expires_at = ExpiresAt(t),
                  !.inv.pc = "build"]

\* ClockStep that reads the clock for the first envelope it gets to and
\* keeps that value for the rest of the batch.
ClockStepOncePerBatch(w, env) ==
    IF \E j \in 1..Len(w.log) : w.log[j].op = "time"
    THEN [w EXCEPT !.inv.pc = "build"]
    ELSE [w EXCEPT !.log = Append(@, [Call(w, "time", TRUE) EXCEPT !.t = env.t]),
                   !.inv.created_at = env.t,
                   !.inv.expires_at = ExpiresAt(env.t),
                   !.inv.pc = "build"]

\* created_at = int(time.time()); expires_at = ...
ClockStep(w, env) ==
    [w EXCEPT !.log = Append(@, [Call(w, "time", TRUE) EXCEPT !.t = env.t]),
              !.inv.created_at = env.t,
              !.inv.expires_at = ExpiresAt(env.t),
              !.inv.pc = "build"]

\* Pk that carries the time of processing as well as the survey.
PkOfCreation(f) == "SURVEY#" \o str(f.survey_id) \o "#" \o ToString(f.created_at)

\* Pk that carries the envelope's messageId as well as the survey.
PkWithEnvelope(f) ==
    "SURVEY#" \o str(f.survey_id) \o "#" \o f.Records[f.i].messageId

\* Pk taken from the customer, not from the survey.
PkOfCustomer(f) == "SURVEY#" \o str(f.customer_id)

\* Pk keyed by the delivery (the envelope's messageId), not by the survey.
PkOfEnvelope(f) == "SURVEY#" \o f.Records[f.i].messageId

\* f'SURVEY#{survey_id}'
Pk(f) == "SURVEY#" \o str(f.survey_id)

\* item = {...}; Decimal(str(rating)) may raise.
BuildItemStep(w) ==
    LET f == w.inv
        d == Decimal(str(f.rating))
    IN  IF d.exc # "none" THEN OuterExcept(w, d.exc)
        ELSE [w EXCEPT !.inv.item =
                  [pk |-> Pk(f), customerId |-> f.customer_id,
                   surveyId |-> f.survey_id, rating |-> d.value,
                   text |-> f.text, sentiment |-> f.sentiment,
                   score |-> f.sentiment_scores,
                   createdAt |-> f.created_at, expiresAt |-> f.expires_at,
                   originalTimestamp |-> f.timestamp],
                       !.inv.pc = "put"]

\* DynamoDB's PutItem on a table whose key is pk: the item replaces the item
\* of the same key, if there is one.
put_item(table, item) == {it \in table : it.pk # item.pk} \cup {item}

\* The history of the successful writes, kept by surveyId: the item written
\* last, and whether it took the place of an item of other content.
Remember(latest, item) ==
    {e \in latest : e.item.surveyId # item.surveyId}
        \cup {[item |-> item,
               replaced |-> \E e \in latest :
                                /\ e.item.surveyId = item.surveyId
                                /\ e.item # item]}

\* table = dynamodb.Table(TABLE_NAME); table.put_item(Item=item)
PutItemStep(w, env) ==
    LET called == [w EXCEPT !.log = Append(@, Call(w, "put_item",
                                                   env.dynamodb = "ok"))]
    IN  IF env.dynamodb # "ok" THEN DynamoExcept(called)
        ELSE [called EXCEPT
                  !.table = put_item(w.table, w.inv.item),
                  !.persisted = @ \cup {w.inv.Records[w.inv.i].messageId},
                  !.latest = Remember(@, w.inv.item),
                  !.inv.pc = "loop"]

\* ReturnStep that always answers 200 and drops the failures.
ReturnStepAlwaysOk(w) ==
    [w EXCEPT !.inv.pc = "returned",
              !.inv.result = [statusCode |-> 200, hasFailures |-> FALSE,
                              batchItemFailures |-> <<>>]]

\* if batch_item_failures: return {'batchItemFailures': ...}
\* return {'statusCode': 200, 'body': ...}
ReturnStep(w) ==
    [w EXCEPT !.inv.pc = "returned",
              !.inv.result =
                  IF w.inv.batch_item_failures # <<>>
                  THEN [statusCode |-> 0, hasFailures |-> TRUE,
                        batchItemFailures |-> w.inv.batch_item_failures]
                  ELSE [statusCode |-> 200, hasFailures |-> FALSE,
                        batchItemFailures |-> <<>>]]

\* The identifiers a returned outcome names.
Reported(result) ==
    {result.batchItemFailures[k].itemIdentifier :
         k \in 1..Len(result.batchItemFailures)}

IsReported(result, e) == e.messageId \in Reported(result)

\* SQS with ReportBatchItemFailures: the envelopes the outcome names stay
\* queued for redelivery, the others are deleted; an invocation that raised
\* keeps its whole batch queued.  The frame of the call is gone.
AcknowledgeStep(w) ==
    [w EXCEPT !.queue = IF w.inv.pc = "raised" THEN w.queue
                        ELSE SelectSeq(w.queue,
                                 LAMBDA e : IsReported(w.inv.result, e)),
              !.inv = IdleFrame]

\* The step the frame's position selects.
Step(w, env) ==
    CASE w.inv.pc = "idle" -> InvokeStep(w)
      [] w.inv.pc = "loop" -> ForStep(w)
      [] w.inv.pc = "parse" -> ParseStep(w)
      [] w.inv.pc = "validate" -> ValidateStep(w)
      [] w.inv.pc = "classify" -> DetectSentimentStep(w, env)
      [] w.inv.pc = "clock" -> ClockStep(w, env)
      [] w.inv.pc = "build" -> BuildItemStep(w)
      [] w.inv.pc = "put" -> PutItemStep(w, env)
      [] w.inv.pc = "return" -> ReturnStep(w)
      [] OTHER -> AcknowledgeStep(w)


\* ------------------------------------------------------ the authorizer
\* src/lambda/authorizer.py: the lambda_handler API Gateway calls before a
\* submission is enqueued.
REQUIRED_FIELDS == {"surveyId", "customerId", "rating", "text", "timestamp"}

\* The spellings of the API key header, in the order line 29 looks them up.
HeaderNames == <<"x-api-key", "X-Api-Key", "X-API-Key">>

NoHeader == [n \in 1..Len(HeaderNames) |-> Absent]

\* A headers dict: what it has under the three spellings, and whether it
\* has other headers.  kind "absent": the event has no such key; "null":
\* the key is there with the value None.
Headers(get, other) == [kind |-> "dict", get |-> get, other |-> other]

AbsentHeaders == [kind |-> "absent", get |-> NoHeader, other |-> FALSE]

NullHeaders == [kind |-> "null", get |-> NoHeader, other |-> FALSE]

\* bool(headers): a dict is true when it is not empty.
TruthyDict(h) ==
    /\ h.kind = "dict"
    /\ h.other \/ \E n \in 1..Len(HeaderNames) : h.get[n].t # "absent"

\* headers.get(name)
headers_get(h, n) == IF h.get[n].t = "absent" THEN None ELSE h.get[n]

\* a or b
Or(a, b) == IF Truthy(a) THEN a ELSE b

\* The request body of an event: no body key, the empty string, or a text
\* (invalid JSON, JSON null or number, a JSON list or string, an object).
NoBody == [kind |-> "absent", obj |-> NoObj]
EmptyBody == [kind |-> "empty", obj |-> NoObj]
JsonList == [kind |-> "list", obj |-> NoObj]

\* generate_policy(principal_id, effect, resource)
generate_policy(principal_id, effect, resource) ==
    [principalId |-> principal_id,
     policyDocument |->
         [Version |-> "2012-10-17",
          Statement |-> <<[Action |-> "execute-api:Invoke",
                           Effect |-> effect,
                           Resource |-> resource]>>]]

\* event.get('routeArn', event.get('methodArn', '*'))
RouteArn(event) ==
    IF event.routeArn.t # "absent" THEN event.routeArn
    ELSE IF event.methodArn.t # "absent" THEN event.methodArn
    ELSE Str("*")

NoEvent ==
    [headers |-> AbsentHeaders, requestContextHeaders |-> AbsentHeaders,
     body |-> NoBody, routeArn |-> Absent, methodArn |-> Absent]

\* The frame of the authorizer's lambda_handler: its event, its locals, what
\* it printed last and what it returned.
AuthFrame(event) ==
    [pc |-> "ssm", event |-> event, valid_api_key |-> None,
     headers |-> AbsentHeaders, api_key |-> None, missing_fields |-> {},
     printed |-> "", result |-> generate_policy("", "", Absent)]

\* response = ssm.get_parameter(...); valid_api_key = ...; on an exception
\* return the Deny policy.
GetParameterStep(f, ssm) ==
    IF ~ssm.ok
    THEN [f EXCEPT !.printed = "Error retrieving API key from SSM",
                   !.result = generate_policy("user", "Deny", RouteArn(f.event)),
                   !.pc = "returned"]
    ELSE [f EXCEPT !.valid_api_key = Str(ssm.value), !.pc = "headers"]

\* headers = event.get('headers', {}) or event.get('requestContext', {})
\*     .get('http', {}).get('headers', {})
EventHeaders(event) ==
    IF TruthyDict(event.headers) THEN event.headers
    ELSE IF event.requestContextHeaders.kind = "dict"
         THEN event.requestContextHeaders
         ELSE Headers(NoHeader, FALSE)

\* api_key = headers.get('x-api-key') or headers.get('X-Api-Key')
\*     or headers.get('X-API-Key')
ApiKey(h) == Or(headers_get(h, 1), Or(headers_get(h, 2), headers_get(h, 3)))

LookupStep(f) ==
    [f EXCEPT !.headers = EventHeaders(f.event),
              !.api_key = ApiKey(EventHeaders(f.event)),
              !.pc = "check"]

\* KeyRejected without the comparison with the secret.
KeyRejectedMissingOnly(f) == ~Truthy(f.api_key)

\* not api_key or api_key != valid_api_key
KeyRejected(f) == ~Truthy(f.api_key) \/ f.api_key # f.valid_api_key

\* if not api_key or api_key != valid_api_key: return the Deny policy
CheckKeyStep(f) ==
    IF KeyRejected(f)
    THEN [f EXCEPT !.result = generate_policy("user", "Deny", RouteArn(f.event)),
                   !.pc = "returned"]
    ELSE [f EXCEPT !.pc = "body"]

\* [field for field in REQUIRED_FIELDS if field not in body_json]: None and
\* numbers have no 'in' (TypeError); a list or a string has none of the
\* fields.
MissingFields(body) ==
    CASE body.kind = "object" ->
             [exc |-> "none",
              value |-> {x \in REQUIRED_FIELDS : body.obj[x].t = "absent"}]
      [] body.kind = "list" -> [exc |-> "none", value |-> REQUIRED_FIELDS]
      [] body.kind = "invalid" -> [exc |-> "JSONDecodeError", value |-> {}]
      [] OTHER -> [exc |-> "TypeError", value |-> {}]

\* BodyStep that turns away a request whose body it cannot accept.
BodyStepStrict(f) ==
    LET body == f.event.body
        m == MissingFields(body)
        bad == body.kind \notin {"absent", "empty"}
                   /\ (m.exc # "none" \/ m.value # {})
    IN  [f EXCEPT !.result = generate_policy("user",
                                 IF bad THEN "Deny" ELSE "Allow",
                                 RouteArn(f.event)),
                  !.pc = "returned"]

\* body = event.get('body'); if body: look for missing fields and print,
\* whatever is found; return the Allow policy.
BodyStep(f) ==
    LET body == f.event.body
        m == MissingFields(body)
        looked == body.kind \notin {"absent", "empty"}
    IN  [f EXCEPT !.missing_fields = IF looked /\ m.exc = "none"
                                     THEN m.value ELSE {},
                  !.printed = CASE looked /\ m.exc # "none" ->
                                       "Invalid JSON in request body"
                                [] looked /\ m.exc = "none" /\ m.value # {} ->
                                       "Missing required fields"
                                [] OTHER -> "",
                  !.result = generate_policy("user", "Allow", RouteArn(f.event)),
                  !.pc = "returned"]

\* The step the authorizer's position selects.
AuthorizerStep(f, ssm) ==
    CASE f.pc = "ssm" -> GetParameterStep(f, ssm)
      [] f.pc = "headers" -> LookupStep(f)
      [] f.pc = "check" -> CheckKeyStep(f)
      [] f.pc = "body" -> BodyStep(f)
      [] OTHER -> f

\* No request at the authorizer.
NoAuth == [first |-> AuthFrame(NoEvent), second |-> AuthFrame(NoEvent)]

\* ------------------------------------------------------------ the state
\* auth: two calls of the authorizer, on two requests, side by side.
VARIABLES queue, inv, table, log, invocations, persisted, latest, now, twin,
          auth

vars ==
    <<queue, inv, table, log, invocations, persisted, latest, now, twin, auth>>

World ==
    [queue |-> queue, inv |-> inv, table |-> table, log |-> log,
     invocations |-> invocations, persisted |-> persisted,
     latest |-> latest]

Becomes(w) ==
    /\ queue' = w.queue
    /\ inv' = w.inv
    /\ table' = w.table
    /\ log' = w.log
    /\ invocations' = w.invocations
    /\ persisted' = w.persisted
    /\ latest' = w.latest

Env(c, l, d, t) == [comprehend |-> c, sentiment |-> l, dynamodb |-> d, t |-> t]

\* ----------------------------------------------------------- the inputs
Timestamp == Str("2024-01-01T00:00:00Z")

Good(sid, rating, ts) ==
    Object(Obj(Str(sid), Str("c1"), Num(rating), Str("Great service!"), ts))

\* {"customerId":"c2","rating":3,"text":"ok"}
MissingSurveyId ==
    Object(Obj(Absent, Str("c2"), Num(3), Str("ok"), Absent))

BadRating ==
    Object(Obj(Str("s1"), Str("c1"), Str("abc"), Str("Great service!"),
               Timestamp))

Bodies ==
    {Good("s1", 5, Timestamp), Good("s1", 3, Timestamp),
     Good("s2", 5, Timestamp), Good("s2", 0, Timestamp),
     Good("s1", 5, Absent),
     InvalidJson, NonObject, MissingSurveyId, BadRating}

MessageId(k) == "m" \o ToString(k)

\* The batches of n envelopes with bodies of B; SQS gives each envelope its
\* own messageId.
BatchesOf(B, n) ==
    {[k \in 1..n |-> [messageId |-> MessageId(k), body |-> b[k]]] :
         b \in [1..n -> B]}

EmptyWorld ==
    [queue |-> <<>>, inv |-> IdleFrame, table |-> {}, log |-> <<>>,
     invocations |-> 0, persisted |-> {}, latest |-> {}]

\* A queue of envelopes with bodies of B, before the first invocation.
InitOf(B) ==
    /\ queue \in UNION {BatchesOf(B, n) : n \in 1..MaxBatch}
    /\ inv = IdleFrame
    /\ table = {}
    /\ log = <<>>
    /\ invocations = 0
    /\ persisted = {}
    /\ latest = {}
    /\ now = 0
    /\ auth = NoAuth
    /\ twin = EmptyWorld

Init == InitOf(Bodies)

\* ---------------------------------------------------------- the actions
Invoke ==
    /\ inv.pc = "idle"
    /\ queue # <<>>
    /\ Becomes(InvokeStep(World))
    /\ UNCHANGED <<now, twin, auth>>

NextRecord ==
    /\ inv.pc = "loop"
    /\ Becomes(ForStep(World))
    /\ UNCHANGED <<now, twin, auth>>

ParseBody ==
    /\ inv.pc = "parse"
    /\ Becomes(ParseStep(World))
    /\ UNCHANGED <<now, twin, auth>>

Validate ==
    /\ inv.pc = "validate"
    /\ Becomes(ValidateStep(World))
    /\ UNCHANGED <<now, twin, auth>>

DetectSentiment ==
    /\ inv.pc = "classify"
    /\ \E c \in {"ok", "error"}, l \in Labels :
           Becomes(DetectSentimentStep(World, Env(c, l, "ok", now)))
    /\ UNCHANGED <<now, twin, auth>>

\* time.time() never runs backwards.
ClockValues == {t \in now..(now + 1) : t <= MaxClock}

ReadClock ==
    /\ inv.pc = "clock"
    /\ \E t \in ClockValues :
           /\ Becomes(ClockStep(World, Env("ok", "POSITIVE", "ok", t)))
           /\ now' = t
    /\ UNCHANGED <<twin, auth>>

BuildItem ==
    /\ inv.pc = "build"
    /\ Becomes(BuildItemStep(World))
    /\ UNCHANGED <<now, twin, auth>>

PutItem ==
    /\ inv.pc = "put"
    /\ \E d \in {"ok", "error"} :
           Becomes(PutItemStep(World, Env("ok", "POSITIVE", d, now)))
    /\ UNCHANGED <<now, twin, auth>>

Return ==
    /\ inv.pc = "return"
    /\ Becomes(ReturnStep(World))
    /\ UNCHANGED <<now, twin, auth>>

Acknowledge ==
    /\ inv.pc \in {"returned", "raised"}
    /\ Becomes(AcknowledgeStep(World))
    /\ UNCHANGED <<now, twin, auth>>

Handler ==
    \/ NextRecord
    \/ ParseBody
    \/ Validate
    \/ DetectSentiment
    \/ ReadClock
    \/ BuildItem
    \/ PutItem
    \/ Return

\* One invocation of lambda_handler on a batch.
Next == (invocations = 0 /\ Invoke) \/ Handler

Spec == Init /\ [][Next]_vars

\* ------------------------------------------------------ one envelope
\* Every object body over these field values, and the two bodies that are
\* no object: the inputs of parsing and validation.
StringValues == {Absent, None, Str(""), Str("x")}

RatingValues == {Absent, None, Num(0), Num(5), Str(""), Str("abc"), Str("5")}

\* A surveyId may also be a JSON number.
SurveyIdValues == StringValues \cup {Num(7)}

FullBodies ==
    {Object(Obj(sid, cid, r, tx, ts)) :
         sid \in SurveyIdValues, cid \in StringValues, r \in RatingValues,
         tx \in StringValues, ts \in {Absent, Timestamp}}
        \cup {InvalidJson, NonObject}

InitFull ==
    /\ queue \in BatchesOf(FullBodies, 1)
    /\ inv = IdleFrame
    /\ table = {}
    /\ log = <<>>
    /\ invocations = 0
    /\ persisted = {}
    /\ latest = {}
    /\ now = 0
    /\ auth = NoAuth
    /\ twin = EmptyWorld

\* One invocation on a batch of one envelope with any body.
SpecFull == InitFull /\ [][Next]_vars

\* ------------------------------------------------------------ two runs
\* Two runs of lambda_handler side by side, on batches that differ only in
\* the timestamp fields of their submissions, with the same answers from
\* the classifier, the store and the clock.
TwinBodies == {Good("s1", 5, Timestamp), InvalidJson}

OtherTimestamps == {Absent, Str(""), Str("1999-12-31T23:59:59Z")}

WithTimestamp(body, ts) ==
    IF body.kind = "object"
    THEN [body EXCEPT !.obj.timestamp = ts]
    ELSE body

\* The batches that are batch but for their timestamps.
TwinsOf(batch) ==
    {[k \in 1..Len(batch) |->
          [batch[k] EXCEPT !.body = WithTimestamp(@, ts[k])]] :
         ts \in [1..Len(batch) -> OtherTimestamps]}

InitTwin ==
    /\ queue \in UNION {BatchesOf(TwinBodies, n) : n \in 1..MaxBatch}
    /\ inv = IdleFrame
    /\ table = {}
    /\ log = <<>>
    /\ invocations = 0
    /\ persisted = {}
    /\ latest = {}
    /\ now = 0
    /\ auth = NoAuth
    /\ \E b \in TwinsOf(queue) : twin = [EmptyWorld EXCEPT !.queue = b]

TwinStep ==
    /\ inv.pc \notin {"returned", "raised"}
    /\ inv.pc = "idle" => invocations = 0
    /\ \E env \in Envs(now, now + 1) :
           /\ env.t \in ClockValues
           /\ Becomes(Step(World, env))
           /\ twin' = Step(twin, env)
           /\ now' = IF inv.pc = "clock" THEN env.t ELSE now
    /\ UNCHANGED auth

SpecTwin == InitTwin /\ [][TwinStep]_vars

\* ------------------------------------------------------- redelivery
\* The bodies of the runs with redelivery: a submission and an undecodable
\* body.
RedeliveryBodies == {Good("s1", 5, Timestamp), InvalidJson}

\* The bodies of the runs with repeated delivery: two surveys.
RepeatedBodies == {Good("s1", 5, Timestamp), Good("s2", 3, Timestamp)}

InitRedelivery == InitOf(RedeliveryBodies)

\* Successive invocations, SQS redelivering exactly what each outcome names.
NextRedelivery ==
    \/ (invocations < MaxInvocations /\ Invoke)
    \/ Handler
    \/ Acknowledge

SpecRedelivery == InitRedelivery /\ [][NextRedelivery]_vars

\* At-least-once delivery: SQS may deliver a batch again whatever the
\* outcome said (a false failure), successes included.
DeliverAgain ==
    /\ inv.pc = "returned"
    /\ inv' = IdleFrame
    /\ UNCHANGED <<queue, table, log, invocations, persisted, latest, now,
                   twin, auth>>

NextAtLeastOnce ==
    \/ (invocations < MaxInvocations /\ Invoke)
    \/ Handler
    \/ Acknowledge
    \/ DeliverAgain

\* The batches of the runs with repeated delivery: one survey, once or
\* several times over, alone or after an envelope of another survey.
RepeatedBatches ==
    {b \in UNION {BatchesOf(RepeatedBodies, n) : n \in 1..MaxBatch} :
         \A k \in 2..Len(b) : b[k].body = Good("s1", 5, Timestamp)}

InitAtLeastOnce ==
    /\ queue \in RepeatedBatches
    /\ inv = IdleFrame
    /\ table = {}
    /\ log = <<>>
    /\ invocations = 0
    /\ persisted = {}
    /\ latest = {}
    /\ now = 0
    /\ auth = NoAuth
    /\ twin = EmptyWorld

SpecAtLeastOnce == InitAtLeastOnce /\ [][NextAtLeastOnce]_vars

\* ------------------------------------------------ two invocations at once
\* Two invocations of lambda_handler running at the same time in two
\* execution environments, each on its own batch; World is the one, twin the
\* other.  batch_item_failures and the other locals are per call (line 28);
\* what the two share is the table (and the history of its writes).
FirstBodies == {Good("s1", 5, Timestamp)}

SecondBodies == {Good("s1", 3, Timestamp)}

\* The batch with the messageIds SQS gave to other envelopes.
Renumbered(batch, offset) ==
    [k \in 1..Len(batch) |->
         [batch[k] EXCEPT !.messageId = MessageId(offset + k)]]

\* w, seeing the store as the step of the other invocation left it.
Share(w, other) ==
    [w EXCEPT !.table = other.table,
              !.persisted = other.persisted,
              !.latest = other.latest]

\* The answers the environment can give to the step w is at.
EnvsAt(w) ==
    CASE w.inv.pc = "classify" ->
             {Env(c, l, "ok", now) : c \in {"ok", "error"}, l \in Labels}
      [] w.inv.pc = "clock" -> {Env("ok", "POSITIVE", "ok", t) : t \in ClockValues}
      [] w.inv.pc = "put" -> {Env("ok", "POSITIVE", d, now) : d \in {"ok", "error"}}
      [] OTHER -> {Env("ok", "POSITIVE", "ok", now)}

\* The invocation has a step to take.
Running(w) ==
    /\ w.inv.pc \notin {"returned", "raised"}
    /\ w.inv.pc = "idle" => w.invocations = 0

InitConcurrent ==
    /\ queue \in UNION {BatchesOf(FirstBodies, n) : n \in 1..MaxConcurrentBatch}
    /\ inv = IdleFrame
    /\ table = {}
    /\ log = <<>>
    /\ invocations = 0
    /\ persisted = {}
    /\ latest = {}
    /\ now = 0
    /\ auth = NoAuth
    /\ \E b \in UNION {BatchesOf(SecondBodies, n) : n \in 1..MaxConcurrentBatch} :
           twin = [EmptyWorld EXCEPT
                       !.queue = Renumbered(b, MaxConcurrentBatch)]

\* A step of the first invocation.
StepFirst ==
    /\ Running(World)
    /\ \E env \in EnvsAt(World) :
           LET w == Step(World, env)
           IN  /\ Becomes(w)
               /\ twin' = Share(twin, w)
               /\ now' = IF inv.pc = "clock" THEN env.t ELSE now
    /\ UNCHANGED auth

\* A step of the second invocation.
StepSecond ==
    /\ Running(twin)
    /\ \E env \in EnvsAt(twin) :
           LET w == Step(twin, env)
           IN  /\ twin' = w
               /\ Becomes(Share(World, w))
               /\ now' = IF twin.inv.pc = "clock" THEN env.t ELSE now
    /\ UNCHANGED auth

NextConcurrent == StepFirst \/ StepSecond

SpecConcurrent == InitConcurrent /\ [][NextConcurrent]_vars

\* ------------------------------------------- two runs, other messageIds
\* Two runs of lambda_handler side by side on batches that differ only in
\* the messageIds of their envelopes, with the same answers from the
\* classifier, the store and the clock.
RenamedBodies == {Good("s1", 5, Timestamp), InvalidJson, MissingSurveyId}

\* The batch with its messageIds in the opposite order.
Reversed(batch) ==
    [k \in 1..Len(batch) |->
         [batch[k] EXCEPT !.messageId = MessageId(Len(batch) + 1 - k)]]

InitRenamed ==
    /\ queue \in UNION {BatchesOf(RenamedBodies, n) : n \in 1..MaxBatch}
    /\ inv = IdleFrame
    /\ table = {}
    /\ log = <<>>
    /\ invocations = 0
    /\ persisted = {}
    /\ latest = {}
    /\ now = 0
    /\ auth = NoAuth
    /\ \E b \in {Renumbered(queue, MaxBatch), Reversed(queue)} :
           twin = [EmptyWorld EXCEPT !.queue = b]

SpecRenamed == InitRenamed /\ [][TwinStep]_vars

\* ----------------------------------------------------- the authorizer
\* Two calls of the authorizer side by side, on requests that differ only in
\* their body, with the same answer from SSM.
Secrets == {"k1", "k2"}

SsmAnswers ==
    {[ok |-> FALSE, value |-> ""]} \cup {[ok |-> TRUE, value |-> v] : v \in Secrets}

KeyValues == {Str(""), Str("k1"), Str("k2")}

\* Header names are case-insensitive: a request has its API key header
\* once, under one of the spellings, or not at all.
HeaderDicts ==
    {Headers(NoHeader, o) : o \in BOOLEAN}
        \cup {Headers([NoHeader EXCEPT ![n] = v], o) :
                  n \in 1..Len(HeaderNames), v \in KeyValues, o \in BOOLEAN}

AuthorizerBodies ==
    {NoBody, EmptyBody, InvalidJson, NonObject, JsonList,
     Good("s1", 5, Timestamp), MissingSurveyId}

Events ==
    [headers : {AbsentHeaders, NullHeaders} \cup HeaderDicts,
     requestContextHeaders :
         {AbsentHeaders, Headers([NoHeader EXCEPT ![1] = Str("k1")], TRUE)},
     body : AuthorizerBodies,
     routeArn : {Absent, Str("arn:route")},
     methodArn : {Absent, Str("arn:method")}]

InitAuthorizer ==
    /\ queue = <<>>
    /\ inv = IdleFrame
    /\ table = {}
    /\ log = <<>>
    /\ invocations = 0
    /\ persisted = {}
    /\ latest = {}
    /\ now = 0
    /\ twin = EmptyWorld
    /\ \E e \in Events, b \in AuthorizerBodies :
           auth = [first |-> AuthFrame(e),
                   second |-> AuthFrame([e EXCEPT !.body = b])]

Positions == {auth.first.pc, auth.second.pc}

Authorizing(ssm) ==
    /\ auth' = [first |-> AuthorizerStep(auth.first, ssm),
                second |-> AuthorizerStep(auth.second, ssm)]
    /\ UNCHANGED <<queue, inv, table, log, invocations, persisted, latest,
                   now, twin>>

GetParameter == "ssm" \in Positions /\ \E ssm \in SsmAnswers : Authorizing(ssm)

LookupKey == "headers" \in Positions /\ Authorizing([ok |-> TRUE, value |-> ""])

CheckKey == "check" \in Positions /\ Authorizing([ok |-> TRUE, value |-> ""])

CheckBody == "body" \in Positions /\ Authorizing([ok |-> TRUE, value |-> ""])

NextAuthorizer == GetParameter \/ LookupKey \/ CheckKey \/ CheckBody

SpecAuthorizer == InitAuthorizer /\ [][NextAuthorizer]_vars

\* ------------------------------------------------------- what happened
\* The calls of the running (or last) invocation on its k-th envelope.
CallsOn(k, op) ==
    {j \in 1..Len(log) : /\ log[j].inv = invocations
                         /\ log[j].i = k
                         /\ log[j].op = op}

\* put_item succeeded for the k-th envelope of this invocation.
Written(k) == \E j \in CallsOn(k, "put_item") : log[j].ok

\* The k-th envelope's messageId is in the failures collected so far.
Failed(k) ==
    \E j \in 1..Len(inv.batch_item_failures) :
        inv.batch_item_failures[j].itemIdentifier = inv.Records[k].messageId

\* The k-th envelope's messageId is in the outcome lambda_handler returned.
InOutcome(k) == inv.Records[k].messageId \in Reported(inv.result)

Envelopes == 1..Len(inv.Records)

\* ---------------------------------------------------------------- C1
\* C1: whatever faults the envelopes of a batch meet, lambda_handler never
\* leaves by an exception, it looks at the envelopes one after the other
\* without skipping any, every envelope it has left behind is persisted or
\* recorded as failed, and when it returns that is true of the whole batch.
C1_EveryEnvelopeTerminal ==
    /\ inv.pc # "raised"
    /\ inv.pc \in {"loop", "return", "returned"} =>
           \A k \in 1..inv.i : Written(k) \/ Failed(k)
    /\ inv.pc \in {"return", "returned"} => inv.i = Len(inv.Records)
    /\ inv.pc = "returned" => \A k \in Envelopes : Written(k) \/ InOutcome(k)

\* A batch whose first envelope failed before the classifier and whose
\* second envelope was persisted all the same.
C1_Witness ==
    /\ inv.pc = "returned"
    /\ Len(inv.Records) = 2
    /\ inv.Records[1].body = NonObject
    /\ InOutcome(1) /\ ~Written(1)
    /\ Written(2) /\ ~InOutcome(2)

\* ---------------------------------------------------------------- C2
\* C2: when lambda_handler returns, an envelope is named in the outcome
\* exactly when no put_item of this invocation succeeded for it.
C2_ReportedIffNotWritten ==
    inv.pc = "returned" =>
        \A k \in Envelopes : InOutcome(k) <=> ~Written(k)

\* A returned batch with a store failure on one envelope and a successful
\* write on the other.
C2_Witness ==
    /\ inv.pc = "returned"
    /\ Len(inv.Records) = 2
    /\ \E j \in CallsOn(1, "put_item") : ~log[j].ok
    /\ InOutcome(1)
    /\ Written(2) /\ ~InOutcome(2)


\* ---------------------------------------------------- the submissions
Required == {"surveyId", "customerId", "rating", "text"}

BodyOf(k) == inv.Records[k].body

\* A Survey Submission as the data model has it: an object whose surveyId,
\* customerId and text are non-empty strings, whose rating is a number and
\* whose timestamp, when present, is a string.
WellFormed(body) ==
    /\ body.kind = "object"
    /\ \A f \in {"surveyId", "customerId", "text"} :
           body.obj[f].t = "str" /\ body.obj[f].s # ""
    /\ body.obj.rating.t = "num"
    /\ body.obj.timestamp.t \in {"absent", "str"}

\* An external call of this invocation on the k-th envelope failed.
CallFailed(k) ==
    \E j \in 1..Len(log) :
        log[j].inv = invocations /\ log[j].i = k /\ ~log[j].ok

Healthy(k) == WellFormed(BodyOf(k)) /\ ~CallFailed(k)

\* The table holds the record of the k-th envelope's submission.
Persisted(k) ==
    /\ Written(k)
    /\ \E it \in table :
           /\ it.surveyId = BodyOf(k).obj.surveyId
           /\ it.customerId = BodyOf(k).obj.customerId
           /\ it.rating = BodyOf(k).obj.rating.n
           /\ it.text = BodyOf(k).obj.text

DistinctSurveyIds(K) ==
    \A j1, j2 \in K :
        BodyOf(j1).obj.surveyId = BodyOf(j2).obj.surveyId => j1 = j2

\* ---------------------------------------------------------------- C3
\* C3: when exactly one envelope of a returned batch is malformed,
\* incomplete or met a classifier or store error, and the others are
\* healthy with distinct surveyIds, the outcome names exactly that one
\* envelope and the records of the others are persisted.
C3_SingleFailureIsolated ==
    inv.pc = "returned" =>
        \A k \in Envelopes :
            (/\ ~Healthy(k)
             /\ \A j \in Envelopes \ {k} : Healthy(j)
             /\ DistinctSurveyIds(Envelopes \ {k}))
            => /\ Reported(inv.result) = {inv.Records[k].messageId}
               /\ \A j \in Envelopes \ {k} : Persisted(j)

\* The same with a rating of 0 counted as unhealthy, as the code has it.
C3_ExceptZeroRating ==
    inv.pc = "returned" =>
        \A k \in Envelopes :
            (/\ ~Healthy(k)
             /\ \A j \in Envelopes \ {k} :
                    Healthy(j) /\ BodyOf(j).obj.rating.n # 0
             /\ DistinctSurveyIds(Envelopes \ {k}))
            => /\ Reported(inv.result) = {inv.Records[k].messageId}
               /\ \A j \in Envelopes \ {k} : Persisted(j)

\* ---------------------------------------------------------------- C4
SurveyIds == {BodyOf(k).obj.surveyId : k \in Envelopes}

RecordsOf(sid) == {it \in table : it.surveyId = sid}

\* C4: when every envelope of a returned batch is well-formed and no
\* classifier or store call failed, the outcome carries no failures and
\* the table holds exactly one record per surveyId of the batch.
C4_AllHealthyAllStored ==
    (inv.pc = "returned" /\ \A k \in Envelopes : Healthy(k)) =>
        /\ ~inv.result.hasFailures
        /\ Reported(inv.result) = {}
        /\ \A sid \in SurveyIds : Cardinality(RecordsOf(sid)) = 1

\* The same for the batches without a rating of 0.
C4_ExceptZeroRating ==
    (/\ inv.pc = "returned"
     /\ \A k \in Envelopes : Healthy(k) /\ BodyOf(k).obj.rating.n # 0) =>
        /\ ~inv.result.hasFailures
        /\ Reported(inv.result) = {}
        /\ \A sid \in SurveyIds : Cardinality(RecordsOf(sid)) = 1

\* ---------------------------------------------------------------- C6
\* A required field the object does not have, or has as null.
Incomplete(body) ==
    /\ body.kind = "object"
    /\ \E f \in Required : body.obj[f].t \in {"absent", "null"}

\* C6: for an envelope whose submission misses a required field the
\* classifier is never called, no put_item is issued, and once the handler
\* has left the envelope behind its messageId is among the failures (and in
\* the outcome, once returned).
C6_IncompleteNeverClassified ==
    \A k \in 1..inv.i :
        Incomplete(BodyOf(k)) =>
            /\ CallsOn(k, "detect_sentiment") = {}
            /\ CallsOn(k, "put_item") = {}
            /\ inv.pc \notin {"parse", "validate"} => Failed(k)
            /\ inv.pc = "returned" => InOutcome(k)

\* A returned envelope that lacks only its text.
C6_Witness ==
    /\ inv.pc = "returned"
    /\ BodyOf(1).obj.text = Absent
    /\ \A f \in Required \ {"text"} : Truthy(BodyOf(1).obj[f])
    /\ InOutcome(1)
    /\ log = <<>>

\* ---------------------------------------------------------------- C7
\* Every required field is there, not null and, if a string, not empty.
Complete(body) ==
    /\ body.kind = "object"
    /\ \A f \in Required :
           /\ body.obj[f].t \notin {"absent", "null"}
           /\ body.obj[f].t = "str" => body.obj[f].s # ""

\* C7: validation lets an object through to the classifier exactly when
\* its four required fields are present, non-null and non-empty, a rating
\* of 0 included, whether or not it has a timestamp.
C7_RejectsExactlyIncomplete ==
    inv.pc = "returned" =>
        \A k \in Envelopes :
            BodyOf(k).kind = "object" =>
                (CallsOn(k, "detect_sentiment") # {} <=> Complete(BodyOf(k)))

\* The same with a rating of 0 counted as missing, as all() has it.
C7_ExceptZeroRating ==
    inv.pc = "returned" =>
        \A k \in Envelopes :
            BodyOf(k).kind = "object" =>
                (CallsOn(k, "detect_sentiment") # {}
                     <=> Complete(BodyOf(k)) /\ BodyOf(k).obj.rating # Num(0))


\* ---------------------------------------------------------------- C5
IdsOf(batch) == {batch[k].messageId : k \in 1..Len(batch)}

\* The envelopes of this invocation written so far.
WrittenIds == {inv.Records[k].messageId : k \in {k \in Envelopes : Written(k)}}

\* What is queued after the runtime has taken the outcome is exactly what
\* the batch had and this invocation did not persist.
RedeliversTheUnwritten ==
    (inv.pc = "returned" /\ inv'.pc = "idle") =>
        queue' = SelectSeq(inv.Records, LAMBDA e : e.messageId \notin WrittenIds)

\* C5: with SQS redelivering exactly what the outcome names, a running
\* invocation holds exactly what was queued, an envelope persisted by an
\* earlier invocation is in no later batch and no longer queued, and after
\* each invocation the queue (the next batch) holds exactly the envelopes
\* of the batch that this invocation did not persist.
C5_OnlyFailedRedelivered ==
    /\ [](inv.pc # "idle" =>
              /\ inv.Records = queue
              /\ IdsOf(inv.Records) \cap (persisted \ WrittenIds) = {})
    /\ [](inv.pc = "idle" => IdsOf(queue) \cap persisted = {})
    /\ [][RedeliversTheUnwritten]_vars

\* A second invocation that got only the envelope the first one failed on,
\* the first having persisted the other.
C5_Witness ==
    /\ invocations = 2
    /\ inv.pc = "returned"
    /\ Len(inv.Records) = 1
    /\ inv.Records[1].messageId = MessageId(1)
    /\ MessageId(2) \in persisted

\* ---------------------------------------------------------------- C8
\* C8: however often an envelope (or another envelope of the same survey)
\* is processed, in one batch or in successive deliveries, the table holds
\* one record per surveyId, the item of the latest successful put_item for
\* it, and nothing else.
C8_OneRecordLatestContent ==
    /\ \A it1, it2 \in table : it1.surveyId = it2.surveyId => it1 = it2
    /\ table = {e.item : e \in latest}

\* An envelope delivered again after it was persisted: its second write
\* replaced the first, of different content, and left the record of the
\* other survey as it was.
C8_Witness ==
    /\ invocations = 2
    /\ inv.pc = "returned"
    /\ Cardinality(table) = 2
    /\ \E e \in latest : e.replaced /\ e.item \in table
    /\ \E e \in latest : ~e.replaced /\ e.item \in table

\* ---------------------------------------------------------------- C9
\* C9: every record of the table, and every item about to be written, has
\* expiresAt - createdAt = TTL_DAYS * 86400.
C9_ExpiryIsCreatedPlusTtl ==
    /\ \A it \in table : it.expiresAt - it.createdAt = TTL_DAYS * 86400
    /\ inv.pc = "put" =>
           inv.item.expiresAt - inv.item.createdAt = TTL_DAYS * 86400

\* Two records written at different clock values.
C9_Witness ==
    \E it1, it2 \in table :
        /\ it1.createdAt = 0
        /\ it2.createdAt = 1
        /\ it2.expiresAt = 31536001


\* --------------------------------------------------------------- C10
\* A world with every trace of the submissions' timestamps taken out.
BlindItem(it) == [it EXCEPT !.originalTimestamp = None]

BlindBatch(batch) ==
    [k \in 1..Len(batch) |->
         [batch[k] EXCEPT !.body = WithTimestamp(@, Absent)]]

BlindFrame(f) ==
    [f EXCEPT !.Records = BlindBatch(@),
              !.message_body = WithTimestamp(@, Absent),
              !.timestamp = None,
              !.item = BlindItem(@)]

Blind(w) ==
    [w EXCEPT !.queue = BlindBatch(@),
              !.inv = BlindFrame(@),
              !.table = {BlindItem(it) : it \in w.table},
              !.log = [j \in 1..Len(w.log) |->
                           [w.log[j] EXCEPT !.item = BlindItem(@)]],
              !.latest = {BlindItem(e.item) : e \in w.latest}]

Puts == {j \in 1..Len(log) : log[j].op = "put_item" /\ log[j].ok}

\* The labels the classifier returned for the k-th envelope.
LabelsFor(k) ==
    {log[j].sentiment : j \in {c \in CallsOn(k, "detect_sentiment") : log[c].ok}}

\* The item carries the identity, the customer, the text and the label of
\* the k-th envelope's submission.
CarriesSubmission(it, k) ==
    LET b == BodyOf(k).obj
    IN  /\ it.pk = "SURVEY#" \o str(b.surveyId)
        /\ it.surveyId = b.surveyId
        /\ it.customerId = b.customerId
        /\ it.text = b.text
        /\ LabelsFor(k) = {it.sentiment}

\* C11 (as stated): every record written is keyed by 'SURVEY#' + surveyId
\* and carries the submission's surveyId, customerId, rating and text
\* unchanged, with the label the classifier returned for that envelope;
\* the table holds nothing but such records.
C11_RecordCarriesSubmission ==
    /\ \A j \in Puts :
           /\ CarriesSubmission(log[j].item, log[j].i)
           /\ Num(log[j].item.rating) = BodyOf(log[j].i).obj.rating
    /\ \A it \in table : \E j \in Puts : log[j].item = it

\* C11 (amended): the same, with the rating stored as the number that
\* Decimal(str(rating)) gives: a numeric rating keeps its value, a rating
\* given as a numeric string is stored as that number.
C11_RatingAsNumber ==
    /\ \A j \in Puts :
           LET r == BodyOf(log[j].i).obj.rating
           IN  /\ CarriesSubmission(log[j].item, log[j].i)
               /\ \/ r.t = "num" /\ log[j].item.rating = r.n
                  \/ r.t = "str" /\ ToString(log[j].item.rating) = r.s
    /\ \A it \in table : \E j \in Puts : log[j].item = it

\* A record of a submission with a numeric surveyId and the rating "5",
\* classified POSITIVE: keyed SURVEY#7, rating 5.
C11_Witness ==
    /\ inv.pc = "returned"
    /\ BodyOf(1).obj.surveyId = Num(7)
    /\ BodyOf(1).obj.rating = Str("5")
    /\ \E it \in table :
           /\ it.pk = "SURVEY#7"
           /\ it.rating = 5
           /\ it.sentiment = "POSITIVE"

\* --------------------------------------------------------------- C12
\* The positions of a failure list that name the messageId id.
PositionsOf(failures, id) ==
    {j \in 1..Len(failures) : failures[j].itemIdentifier = id}

\* No identifier twice, and every identifier that of an envelope the
\* handler has looked at.
ListsEachOnce(failures, n) ==
    /\ \A j \in 1..Len(failures) :
           PositionsOf(failures, failures[j].itemIdentifier) = {j}
    /\ \A j \in 1..Len(failures) :
           \E k \in 1..n : failures[j].itemIdentifier = inv.Records[k].messageId

\* C12: in the failures collected and in the list lambda_handler returns
\* no identifier is listed twice and every listed identifier is the
\* messageId of an envelope of the batch (of one already looked at); in
\* the returned list every envelope that was not written appears exactly
\* once, whatever step it failed at.
C12_FailedListedOnce ==
    /\ ListsEachOnce(inv.batch_item_failures, inv.i)
    /\ inv.pc = "returned" =>
           /\ inv.result.batchItemFailures = inv.batch_item_failures
           /\ \A k \in Envelopes :
                  ~Written(k) =>
                      Cardinality(PositionsOf(inv.result.batchItemFailures,
                                              inv.Records[k].messageId)) = 1

\* A returned batch whose first envelope failed at the classifier and whose
\* second failed at the store: two entries, one each.
C12_Witness ==
    /\ inv.pc = "returned"
    /\ Len(inv.Records) = 2
    /\ \E j \in CallsOn(1, "detect_sentiment") : ~log[j].ok
    /\ \E j \in CallsOn(2, "put_item") : ~log[j].ok
    /\ Len(inv.result.batchItemFailures) = 2

\* --------------------------------------------------------------- C13
\* C13: within one invocation the classifier is called at most once per
\* envelope and put_item at most once per envelope, a put_item only after
\* the classifier call on that envelope has returned, and never after one
\* that raised.
C13_OneCallEachInOrder ==
    \A k \in Envelopes :
        /\ Cardinality(CallsOn(k, "detect_sentiment")) <= 1
        /\ Cardinality(CallsOn(k, "put_item")) <= 1
        /\ \A j \in CallsOn(k, "put_item") :
               \E c \in CallsOn(k, "detect_sentiment") : c < j /\ log[c].ok
        /\ (\E c \in CallsOn(k, "detect_sentiment") : ~log[c].ok) =>
               CallsOn(k, "put_item") = {}

\* A returned batch: the classifier raised on the first envelope (one call,
\* no write, reported), and the second was classified once and written once.
C13_Witness ==
    /\ inv.pc = "returned"
    /\ Len(inv.Records) = 2
    /\ \E c \in CallsOn(1, "detect_sentiment") : ~log[c].ok
    /\ CallsOn(1, "put_item") = {}
    /\ InOutcome(1)
    /\ Cardinality(CallsOn(2, "detect_sentiment")) = 1
    /\ Written(2)

\* --------------------------------------------------------------- C14
\* The body is no JSON text, or JSON that is not an object.
Undecodable(body) == body.kind \in {"invalid", "nonobject"}

\* C14: an envelope whose body is invalid JSON or JSON that is no object
\* gets no classifier call and no put_item, is among the failures as soon
\* as parsing is over (and in the outcome), and the loop goes on: the
\* handler returns only after the last envelope.
C14_UndecodableFailsAndContinues ==
    /\ \A k \in 1..inv.i :
           Undecodable(BodyOf(k)) =>
               /\ \A j \in 1..Len(log) : log[j].i # k
               /\ inv.pc # "parse" \/ k < inv.i => Failed(k)
               /\ inv.pc = "returned" => InOutcome(k) /\ ~Written(k)
    /\ inv.pc \in {"return", "returned"} => inv.i = Len(inv.Records)

\* A returned batch with invalid JSON first, then a submission that was
\* classified and written after it: every call is on the second envelope.
C14_Witness ==
    /\ inv.pc = "returned"
    /\ Len(inv.Records) = 2
    /\ BodyOf(1) = InvalidJson
    /\ Reported(inv.result) = {MessageId(1)}
    /\ CallsOn(2, "detect_sentiment") # {}
    /\ Written(2)
    /\ \A j \in 1..Len(log) : log[j].i = 2

\* --------------------------------------------------------------- C15
\* The items the successful put_item calls of an invocation wrote.
ItemsPut(w) ==
    {w.log[j].item :
         j \in {c \in 1..Len(w.log) : w.log[c].op = "put_item" /\ w.log[c].ok}}

\* C15: with two invocations running at once on batches of the same
\* survey, in every interleaving of their steps the table holds at most
\* one record per surveyId, each record is whole the item of one put_item
\* of one of the two, namely of the last one for that survey, and each
\* invocation collects and reports failures of its own batch only.
C15_LastWriterWinsWhole ==
    /\ \A it1, it2 \in table : it1.surveyId = it2.surveyId => it1 = it2
    /\ table \subseteq ItemsPut(World) \cup ItemsPut(twin)
    /\ \A it \in table : \E e \in latest : e.item = it
    /\ Cardinality(table) = Cardinality(latest)
    /\ twin.table = table
    /\ Reported([batchItemFailures |-> inv.batch_item_failures])
           \subseteq IdsOf(inv.Records)
    /\ Reported([batchItemFailures |-> twin.inv.batch_item_failures])
           \subseteq IdsOf(twin.inv.Records)

\* Both invocations returned, each wrote survey s1 with its own content,
\* and the one record of the table is the first invocation's item, which
\* replaced the second's.
C15_Witness ==
    /\ inv.pc = "returned"
    /\ twin.inv.pc = "returned"
    /\ \E a \in ItemsPut(World), b \in ItemsPut(twin) :
           /\ a # b
           /\ a.surveyId = b.surveyId
           /\ table = {a}
    /\ \E e \in latest : e.replaced

\* --------------------------------------------------------------- C16
\* The positions in the batch of the envelopes a failure list names, in the
\* order of the list.
FailedPositions(f) ==
    [j \in 1..Len(f.batch_item_failures) |->
         {k \in 1..Len(f.Records) :
              f.Records[k].messageId = f.batch_item_failures[j].itemIdentifier}]

\* C16: two runs on batches that differ only in their messageIds, given the
\* same answers, are at every step at the same position with the same
\* table, the same records written and the same positions failed, and
\* return outcomes of the same kind; and each run's Records stay the
\* envelopes it was given.
C16_MessageIdOnlyNames ==
    /\ inv.pc = twin.inv.pc
    /\ table = twin.table
    /\ {e.item : e \in latest} = {e.item : e \in twin.latest}
    /\ FailedPositions(inv) = FailedPositions(twin.inv)
    /\ inv.result.hasFailures = twin.inv.result.hasFailures
    /\ inv.result.statusCode = twin.inv.result.statusCode
    /\ Len(inv.result.batchItemFailures) = Len(twin.inv.result.batchItemFailures)
    /\ inv.pc # "idle" => inv.Records = queue /\ twin.inv.Records = twin.queue

\* Both runs returned on two envelopes with exchanged messageIds: the first
\* envelope failed, named m1 by the one run and m2 by the other, the second
\* was written, and the tables are the same.
C16_Witness ==
    /\ inv.pc = "returned"
    /\ twin.inv.pc = "returned"
    /\ Len(inv.Records) = 2
    /\ Reported(inv.result) = {MessageId(1)}
    /\ Reported(twin.inv.result) = {MessageId(2)}
    /\ FailedPositions(inv) = <<{1}>>
    /\ table # {}
    /\ table = twin.table

\* --------------------------------------------------------------- C17
\* C17: the clock is read at most once per envelope and only after the
\* classifier call on that envelope has returned; every put_item of an
\* envelope comes after a clock read of that same envelope, which comes
\* after its classifier call, and the item's createdAt and expiresAt are
\* the value of that read and that value plus the TTL.
C17_ClockBetweenClassifyAndPut ==
    \A k \in Envelopes :
        /\ Cardinality(CallsOn(k, "time")) <= 1
        /\ \A t \in CallsOn(k, "time") :
               \E c \in CallsOn(k, "detect_sentiment") : c < t /\ log[c].ok
        /\ \A p \in CallsOn(k, "put_item") :
               \E t \in CallsOn(k, "time") :
                   /\ t < p
                   /\ log[p].item.createdAt = log[t].t
                   /\ log[p].item.expiresAt = log[t].t + TTL_DAYS * 86400

\* A returned batch of two written envelopes, each with its own clock read
\* between its classifier call and its write, the second read later than
\* the first.
C17_Witness ==
    /\ inv.pc = "returned"
    /\ Len(inv.Records) = 2
    /\ Written(1) /\ Written(2)
    /\ \E t1 \in CallsOn(1, "time"), t2 \in CallsOn(2, "time") :
           /\ log[t1].t = 0
           /\ log[t2].t = 1
           /\ \E p \in CallsOn(2, "put_item") : log[p].item.createdAt = 1

\* --------------------------------------------------------------- C18
\* The effect of the policy a call returned.
Effect(f) == f.result.policyDocument.Statement[1].Effect

\* The secret was retrieved and the request's headers have it, non-empty,
\* under one of the spellings of the API key header.
CarriesSecret(f) ==
    /\ f.valid_api_key.t = "str"
    /\ \E n \in 1..Len(HeaderNames) :
           LET v == EventHeaders(f.event).get[n]
           IN  v.t = "str" /\ v.s # "" /\ v = f.valid_api_key

\* C18: a call of the authorizer that has returned has returned one policy
\* of one statement whose effect is Allow or Deny, and it is Allow exactly
\* when the secret was retrieved from SSM and the request carries a
\* non-empty API key header equal to it; before that it has returned
\* nothing.
C18_AllowIffKeyMatches ==
    \A f \in {auth.first, auth.second} :
        /\ f.pc = "returned" =>
               /\ Len(f.result.policyDocument.Statement) = 1
               /\ Effect(f) \in {"Allow", "Deny"}
               /\ Effect(f) = "Allow" <=> CarriesSecret(f)
               /\ f.result.principalId = "user"
               /\ f.result.policyDocument.Statement[1].Resource = RouteArn(f.event)
        /\ f.pc # "returned" => Effect(f) = ""

\* A request allowed on the key k2 under the spelling X-Api-Key.
C18_Witness ==
    /\ auth.first.pc = "returned"
    /\ Effect(auth.first) = "Allow"
    /\ auth.first.event.headers.get[2] = Str("k2")
    /\ auth.first.valid_api_key = Str("k2")

\* --------------------------------------------------------------- C19
\* C19: two calls on requests with the same headers and route that differ
\* only in their body (none, empty, invalid JSON, no object, a submission
\* with or without its required fields), given the same answer by SSM,
\* are at every step at the same position and return the same policy.
C19_BodyDoesNotDecide ==
    /\ auth.first.pc = auth.second.pc
    /\ auth.first.result = auth.second.result
    /\ auth.first.api_key = auth.second.api_key

\* Both calls returned Allow: one on a body without surveyId, which the
\* authorizer noticed and let pass, the other on a request without body.
C19_Witness ==
    /\ auth.first.pc = "returned"
    /\ auth.second.pc = "returned"
    /\ auth.first.event.body = MissingSurveyId
    /\ auth.first.missing_fields = {"surveyId", "timestamp"}
    /\ auth.second.event.body = NoBody
    /\ Effect(auth.first) = "Allow"
    /\ Effect(auth.second) = "Allow"

\* --------------------------------------------------------------- C20
\* The failures name envelopes at increasing positions of the batch.
InBatchOrder(failures, batch) ==
    \A j1, j2 \in 1..Len(failures) :
        j1 < j2 =>
            \E k1, k2 \in 1..Len(batch) :
                /\ k1 < k2
                /\ batch[k1].messageId = failures[j1].itemIdentifier
                /\ batch[k2].messageId = failures[j2].itemIdentifier

\* C20: the failures collected so far, and the list lambda_handler returns,
\* name the failed envelopes in the order of the batch: the list of
\* identifiers is a subsequence of the batch's messageIds.
C20_FailuresInBatchOrder ==
    /\ InBatchOrder(inv.batch_item_failures, inv.Records)
    /\ inv.pc = "returned" =>
           InBatchOrder(inv.result.batchItemFailures, inv.Records)

\* A returned batch whose two envelopes both failed, the first at parsing
\* and the second at the store: the outcome lists m1, then m2.
C20_Witness ==
    /\ inv.pc = "returned"
    /\ Len(inv.Records) = 2
    /\ BodyOf(1) = InvalidJson
    /\ \E j \in CallsOn(2, "put_item") : ~log[j].ok
    /\ inv.result.batchItemFailures =
           <<[itemIdentifier |-> MessageId(1)], [itemIdentifier |-> MessageId(2)]>>

=============================================================================
